---------------------------- MODULE Spec2Model ----------------------------
(***************************************************************************)
(* Model of the client-side application store of JobPulse                  *)
(* (frontend/js/app.js): the paginated load refreshData /                  *)
(* loadMoreApplications, the status reconciliation and auto-fix it runs on *)
(* every fetched record, and validateApplication.                          *)
(*                                                                         *)
(* Strings are sequences of one-character strings, so that trim() and the  *)
(* date regular expression are computed character by character.  The       *)
(* JavaScript values undefined and null are the two distinguished          *)
(* sequences Undef and Null.  A history entry's date is its timestamp      *)
(* (the number new Date(date) subtracts), an integer.                      *)
(***************************************************************************)
EXTENDS Integers, Sequences, FiniteSets, TLC

(***************************************************************************)
(* Bounds of the model.                                                    *)
(***************************************************************************)
\* Longest status_history of an input record.
MaxHist == 2
\* History timestamps are 1..MaxDate.
MaxDate == 2

(***************************************************************************)
(* JavaScript values.                                                      *)
(***************************************************************************)
Undef ==
    <<"undefined">>
Null ==
    <<"null">>
Empty ==
    <<>>

\* !x for a field that holds undefined, null or a string.
Falsy(s) ==
    s \in {Undef, Null, Empty}

\* The 14 status names of validStatuses.
StApplied ==
    <<"A", "p", "p", "l", "i", "e", "d">>
StViewed ==
    <<"V", "i", "e", "w", "e", "d">>
StInReview ==
    <<"I", "n", " ", "R", "e", "v", "i", "e", "w">>
StPhoneScreen ==
    <<"P", "h", "o", "n", "e", " ", "S", "c", "r", "e", "e", "n">>
StInterviewScheduled ==
    <<"I", "n", "t", "e", "r", "v", "i", "e", "w", " ", "S", "c", "h", "e", "d", "u", "l", "e", "d">>
StInterviewed ==
    <<"I", "n", "t", "e", "r", "v", "i", "e", "w", "e", "d">>
StTechnicalRound ==
    <<"T", "e", "c", "h", "n", "i", "c", "a", "l", " ", "R", "o", "u", "n", "d">>
StHRRound ==
    <<"H", "R", " ", "R", "o", "u", "n", "d">>
StAssessment ==
    <<"A", "s", "s", "e", "s", "s", "m", "e", "n", "t">>
StOfferReceived ==
    <<"O", "f", "f", "e", "r", " ", "R", "e", "c", "e", "i", "v", "e", "d">>
StAccepted ==
    <<"A", "c", "c", "e", "p", "t", "e", "d">>
StRejected ==
    <<"R", "e", "j", "e", "c", "t", "e", "d">>
StWithdrawn ==
    <<"W", "i", "t", "h", "d", "r", "a", "w", "n">>
StGhosted ==
    <<"G", "h", "o", "s", "t", "e", "d">>

\* Sample values of the other fields, used by the input domains below.
StBogus ==
    <<"B", "o", "g", "u", "s">>
StAppliedPadded ==
    <<" ", "A", "p", "p", "l", "i", "e", "d">>
Blank ==
    <<" ">>
Acme ==
    <<"A", "c", "m", "e">>
Engineer ==
    <<"E", "n", "g">>
LinkedIn ==
    <<"L", "i", "n", "k", "e", "d", "I", "n">>
Indeed ==
    <<"I", "n", "d", "e", "e", "d">>
DateIso ==
    <<"2", "0", "2", "4", "-", "0", "1", "-", "0", "2">>
DateDmy ==
    <<"0", "1", "-", "0", "2", "-", "2", "0", "2", "4">>
DateLong ==
    <<"2", "0", "2", "4", "-", "0", "1", "-", "0", "2", "1">>

(***************************************************************************)
(* String helpers: String.prototype.trim and the date regular expression.  *)
(***************************************************************************)
IsSpace(c) ==
    c \in {" ", "\t", "\n"}

RECURSIVE TrimStart(_)
TrimStart(s) ==
    IF s # <<>> /\ IsSpace(Head(s)) THEN TrimStart(Tail(s)) ELSE s

RECURSIVE TrimEnd(_)
TrimEnd(s) ==
    IF s # <<>> /\ IsSpace(s[Len(s)]) THEN TrimEnd(SubSeq(s, 1, Len(s) - 1)) ELSE s

Trim(s) ==
    TrimEnd(TrimStart(s))

\* !app.f || !app.f.trim()
MissingField(s) ==
    Falsy(s) \/ Trim(s) = <<>>

Digits ==
    {"0", "1", "2", "3", "4", "5", "6", "7", "8", "9"}

\* Faulty variant: the expression without its closing anchor.
dateRegex_Unanchored(s) ==
    /\ Len(s) >= 10
    /\ \A i \in {1, 2, 3, 4, 6, 7, 9, 10} : s[i] \in Digits
    /\ s[5] = "-"
    /\ s[8] = "-"

\* /^\d{4}-\d{2}-\d{2}$/.test(s)
dateRegex(s) ==
    /\ Len(s) = 10
    /\ \A i \in {1, 2, 3, 4, 6, 7, 9, 10} : s[i] \in Digits
    /\ s[5] = "-"
    /\ s[8] = "-"

validStatuses ==
    {StApplied, StViewed, StInReview, StPhoneScreen, StInterviewScheduled,
     StInterviewed, StTechnicalRound, StHRRound, StAssessment, StOfferReceived,
     StAccepted, StRejected, StWithdrawn, StGhosted}

(***************************************************************************)
(* The history sort: [...app.status_history].sort((a, b) =>                *)
(*   new Date(b.date) - new Date(a.date)), a stable sort on a copy,        *)
(* descending by date.                                                     *)
(***************************************************************************)
\* app.status_history && Array.isArray(app.status_history) && length > 0
\* (an absent history and an empty one are both the empty sequence).
HasHistory(app) ==
    Len(app.status_history) > 0

\* e placed into s, which is sorted descending, behind every entry that is
\* not older than e.
RECURSIVE InsertDesc(_, _)
InsertDesc(e, s) ==
    IF s = <<>> \/ s[1].date < e.date
    THEN <<e>> \o s
    ELSE <<s[1]>> \o InsertDesc(e, Tail(s))

\* Faulty variant: the comparator with a and b exchanged, oldest first.
RECURSIVE InsertAsc(_, _)
InsertAsc(e, s) ==
    IF s = <<>> \/ s[1].date > e.date
    THEN <<e>> \o s
    ELSE <<s[1]>> \o InsertAsc(e, Tail(s))

RECURSIVE sortedHistory_Ascending(_)
sortedHistory_Ascending(h) ==
    IF h = <<>> THEN <<>>
    ELSE InsertAsc(h[Len(h)], sortedHistory_Ascending(SubSeq(h, 1, Len(h) - 1)))

RECURSIVE sortedHistory(_)
sortedHistory(h) ==
    IF h = <<>> THEN <<>>
    ELSE InsertDesc(h[Len(h)], sortedHistory(SubSeq(h, 1, Len(h) - 1)))

\* sortedHistory[0].status
latestHistoryStatus(app) ==
    sortedHistory(app.status_history)[1].status

(***************************************************************************)
(* autoFixApplication(id, correctStatus): the PUT /applications/:id it     *)
(* sends, with body {status: correctStatus}.  Its outcome is only logged.  *)
(***************************************************************************)
autoFixApplication(id, correctStatus) ==
    [id |-> id, status |-> correctStatus]

(***************************************************************************)
(* The reconciliation of one fetched record, the first half of the         *)
(* forEach body of refreshData: the record as it is afterwards and the     *)
(* PUT requests dispatched.                                                *)
(***************************************************************************)
\* Faulty variant: the auto-fix without the test for a mismatch.
reconcile_AlwaysDispatch(app) ==
    IF HasHistory(app)
    THEN [app  |-> [app EXCEPT !.status = latestHistoryStatus(app)],
          puts |-> <<autoFixApplication(app.id, latestHistoryStatus(app))>>]
    ELSE [app |-> app, puts |-> <<>>]

\* Faulty variant: the PUT is dispatched, the local copy is left as fetched.
reconcile_NoLocalUpdate(app) ==
    IF HasHistory(app) /\ app.status # latestHistoryStatus(app)
    THEN [app  |-> app,
          puts |-> <<autoFixApplication(app.id, latestHistoryStatus(app))>>]
    ELSE [app |-> app, puts |-> <<>>]

reconcile(app) ==
    IF HasHistory(app) /\ app.status # latestHistoryStatus(app)
    THEN [app  |-> [app EXCEPT !.status = latestHistoryStatus(app)],
          puts |-> <<autoFixApplication(app.id, latestHistoryStatus(app))>>]
    ELSE [app |-> app, puts |-> <<>>]

(***************************************************************************)
(* validateApplication(app): the checks in the order of the code, the      *)
(* first failure returning false.                                          *)
(***************************************************************************)
validateApplication(app) ==
    IF MissingField(app.company) THEN FALSE
    ELSE IF MissingField(app.role) THEN FALSE
    ELSE IF MissingField(app.status) THEN FALSE
    ELSE IF MissingField(app.platform) THEN FALSE
    ELSE IF Falsy(app.applied_date) THEN FALSE
    ELSE IF ~dateRegex(app.applied_date) THEN FALSE
    ELSE IF app.status \notin validStatuses THEN FALSE
    ELSE IF HasHistory(app) /\ app.status # latestHistoryStatus(app) THEN FALSE
    ELSE TRUE

(***************************************************************************)
(* Bounds of the store model.                                              *)
(***************************************************************************)
\* let pageSize = 50 in the code; the model pages by a smaller number.
pageSize == 2
\* Longest backend collection.
MaxServer == 3
\* refreshData calls started in one behaviour.
MaxCalls == 3

VARIABLES
    allApplications,      \* valid records held
    invalidApplications,  \* records that failed validation
    currentOffset,
    hasMoreData,
    isLoadingMore,
    totalApplications,    \* -1 stands for undefined
    filterPlatform,       \* value of the #filterPlatform select
    serverApps,           \* the backend's collection
    inflight,             \* refreshData calls suspended at their fetch
    calls,                \* refreshData calls started so far
    listenersSetup,       \* _listenersSetup: initApp has set up the handlers
    lastOp,               \* history: the step taken last
    probe,                \* the record under test of SpecPure
    autoFixes,            \* the PUTs of the last completed load, with their outcome
    lastResponse,         \* history: the body of the last page response
    localStorage,         \* the item jobpulse_onboarding_completed
    onboardingGuide,      \* the OnboardingGuide instance, if made
    overlay,              \* #onboardingOverlay and the step it shows
    onbOp,                \* history: the onboarding step taken last
    poller,               \* the run of pollScanStatus
    recentlyUpdatedIds,
    recentlyImportedIds,
    clearTimers,          \* pending highlight-clearing timers, by who set them
    rendered,             \* the highlight sets as the last render read them
    scans,                \* startGmailScan results handled so far
    scanLog,              \* history: the scan step taken last
    arrivals              \* history: the page responses, in order of arrival

storeVars ==
    <<allApplications, invalidApplications, currentOffset, hasMoreData,
      isLoadingMore, totalApplications, filterPlatform, serverApps, inflight,
      calls, listenersSetup, lastOp>>

vars ==
    <<allApplications, invalidApplications, currentOffset, hasMoreData,
      isLoadingMore, totalApplications, filterPlatform, serverApps, inflight,
      calls, listenersSetup, lastOp, probe, autoFixes, lastResponse,
      localStorage, onboardingGuide, overlay, onbOp, poller,
      recentlyUpdatedIds, recentlyImportedIds, clearTimers, rendered, scans,
      scanLog, arrivals>>

\* The auto-fix requests and their history.
fixVars ==
    <<autoFixes, lastResponse>>

\* The onboarding guide.
onbVars ==
    <<localStorage, onboardingGuide, overlay, onbOp>>

\* The scan poller, the manual scan and the highlights.
scanVars ==
    <<poller, recentlyUpdatedIds, recentlyImportedIds, clearTimers, rendered,
      scans, scanLog>>

\* The order in which the responses arrive.
raceVars ==
    <<arrivals>>

\* What the store's own steps leave alone.
auxVars ==
    <<fixVars, onbVars, scanVars, raceVars>>

\* What the steps of SpecFix leave alone.
besideFix ==
    <<onbVars, scanVars, raceVars>>

\* What the steps of the onboarding guide leave alone.
besideOnb ==
    <<storeVars, probe, fixVars, scanVars, raceVars>>

\* What the steps of the scans leave alone.
besideScan ==
    <<probe, fixVars, onbVars, raceVars>>

\* The store as a caller reads it.
Store ==
    [all     |-> allApplications,
     invalid |-> invalidApplications,
     offset  |-> currentOffset,
     hasMore |-> hasMoreData,
     total   |-> totalApplications]

(***************************************************************************)
(* The backend, GET /applications?platform=&limit=&offset=.                *)
(***************************************************************************)
\* The records the backend may hold, without their ids.
ValidApp ==
    [company |-> Acme, role |-> Engineer, status |-> StApplied,
     platform |-> LinkedIn, applied_date |-> DateIso,
     status_history |-> <<[status |-> StApplied, date |-> 1]>>]

\* status behind its history: reconciliation heals it.
StaleApp ==
    [company |-> Acme, role |-> Engineer, status |-> StApplied,
     platform |-> Indeed, applied_date |-> DateIso,
     status_history |-> <<[status |-> StApplied, date |-> 1],
                          [status |-> StInterviewed, date |-> 2]>>]

\* no company: invalid.
NoCompanyApp ==
    [company |-> Empty, role |-> Engineer, status |-> StApplied,
     platform |-> Indeed, applied_date |-> DateIso,
     status_history |-> <<>>]

Templates ==
    {ValidApp, StaleApp, NoCompanyApp}

WithId(t, i) ==
    [id |-> i, company |-> t.company, role |-> t.role, status |-> t.status,
     platform |-> t.platform, applied_date |-> t.applied_date,
     status_history |-> t.status_history]

Collections ==
    UNION {{[i \in 1..n |-> WithId(f[i], i)] : f \in [1..n -> Templates]} :
           n \in 0..MaxServer}

Platforms ==
    {Empty, LinkedIn}

\* The records matching the platform filter; an empty filter is not sent.
ServerMatching(platform) ==
    IF platform = Empty THEN serverApps
    ELSE SelectSeq(serverApps, LAMBDA a : a.platform = platform)

Min(a, b) ==
    IF a < b THEN a ELSE b

\* The response to a request: {applications, has_more, total}.
ServerPage(req) ==
    LET m    == ServerMatching(req.platform)
        last == Min(req.offset + pageSize, Len(m))
    IN  [applications |-> SubSeq(m, req.offset + 1, last),
         has_more     |-> last < Len(m),
         total        |-> Len(m)]

(***************************************************************************)
(* refreshData(resetPagination), from the response on.                     *)
(***************************************************************************)
\* Faulty variant: validNewApps.push(app) outside the else branch.
RECURSIVE ProcessPage_KeepsInvalid(_)
ProcessPage_KeepsInvalid(newApps) ==
    IF newApps = <<>>
    THEN [valid |-> <<>>, invalid |-> <<>>, puts |-> <<>>]
    ELSE LET r    == reconcile(newApps[1])
             rest == ProcessPage_KeepsInvalid(Tail(newApps))
         IN  [valid   |-> <<r.app>> \o rest.valid,
              invalid |-> IF validateApplication(r.app)
                          THEN rest.invalid
                          ELSE <<r.app>> \o rest.invalid,
              puts    |-> r.puts \o rest.puts]

\* Faulty variant: every record is validated as fetched, then reconciled.
RECURSIVE ProcessPage_ValidateFirst(_)
ProcessPage_ValidateFirst(newApps) ==
    IF newApps = <<>>
    THEN [valid |-> <<>>, invalid |-> <<>>, puts |-> <<>>]
    ELSE LET r    == reconcile(newApps[1])
             rest == ProcessPage_ValidateFirst(Tail(newApps))
         IN  IF validateApplication(newApps[1])
             THEN [valid   |-> <<r.app>> \o rest.valid,
                   invalid |-> rest.invalid,
                   puts    |-> r.puts \o rest.puts]
             ELSE [valid   |-> rest.valid,
                   invalid |-> <<r.app>> \o rest.invalid,
                   puts    |-> r.puts \o rest.puts]

\* newApps.forEach(...): every record is reconciled, then validated; the
\* valid ones, the invalid ones and the PUTs dispatched, in page order.
RECURSIVE ProcessPage(_)
ProcessPage(newApps) ==
    IF newApps = <<>>
    THEN [valid |-> <<>>, invalid |-> <<>>, puts |-> <<>>]
    ELSE LET r    == reconcile(newApps[1])
             rest == ProcessPage(Tail(newApps))
         IN  IF validateApplication(r.app)
             THEN [valid   |-> <<r.app>> \o rest.valid,
                   invalid |-> rest.invalid,
                   puts    |-> r.puts \o rest.puts]
             ELSE [valid   |-> rest.valid,
                   invalid |-> <<r.app>> \o rest.invalid,
                   puts    |-> r.puts \o rest.puts]

\* Faulty variant: invalid records are kept on a reset load only.
NextInvalid_ResetOnly(reset, invalid, pageInvalid) ==
    IF reset THEN pageInvalid ELSE invalid

\* Faulty variant: the list is never emptied.
NextInvalid_NeverCleared(reset, invalid, pageInvalid) ==
    invalid \o pageInvalid

\* if (resetPagination) invalidApplications = []; ... invalidApplications.push(app)
NextInvalid(reset, invalid, pageInvalid) ==
    (IF reset THEN <<>> ELSE invalid) \o pageInvalid

\* Faulty variant: the page is appended on a reset as well.
NextAll_AlwaysAppend(reset, all, validNewApps) ==
    all \o validNewApps

\* Faulty variant: an append merges the first valid record only.
NextAll_PartialMerge(reset, all, validNewApps) ==
    IF reset THEN validNewApps
    ELSE all \o SubSeq(validNewApps, 1, Min(1, Len(validNewApps)))

\* allApplications = validNewApps, or [...allApplications, ...validNewApps]
NextAll(reset, all, validNewApps) ==
    IF reset THEN validNewApps ELSE all \o validNewApps

\* Faulty variant: the offset advanced by the number of records fetched.
NextOffset_ServerCount(offset, all, newApps) ==
    offset + Len(newApps)

\* currentOffset = allApplications.length
NextOffset(offset, all, newApps) ==
    Len(all)

\* The response shapes: the paginated envelope, and the legacy bare list.
Shapes ==
    {"envelope", "legacy"}

\* Envelopes that lack one of the two fields beside applications.
PartialShapes ==
    {"envelopeNoHasMore", "envelopeNoTotal"}

\* Faulty variant: an absent has_more read as true.
HasMoreOf_DefaultTrue(shape, page) ==
    IF shape \in {"envelope", "envelopeNoTotal"} THEN page.has_more ELSE TRUE

\* data.has_more !== undefined ? data.has_more : false
HasMoreOf(shape, page) ==
    IF shape \in {"envelope", "envelopeNoTotal"} THEN page.has_more ELSE FALSE

\* data.total || newApps.length
TotalOf(shape, page) ==
    IF shape \in {"envelope", "envelopeNoHasMore"} /\ page.total # 0
    THEN page.total
    ELSE Len(page.applications)

\* try { ... } catch (e) { console.error(...) } finally { ... }: what the
\* body throws is caught and not thrown again, so the promise of refreshData
\* is fulfilled whether the body has thrown or not.
refreshDataSettles(thrown) ==
    "fulfilled"

\* loadMoreApplications: try { await refreshData(false) }
\* catch (e) { showToast("Failed to load more applications", "error") }
loadMoreToast(settled) ==
    IF settled = "rejected" THEN <<"Failed to load more applications">>
    ELSE <<>>

\* History kept for the properties below: the step taken last, the store
\* before it (pre), the pages and PUTs of a completed load and, for a call
\* that no other call overlapped, the store before the call (callPre); how
\* the call settled for its caller, and the toast loadMoreApplications
\* showed on that.
Op(name, req, page, puts) ==
    LET settled == IF name \in {"refresh", "loadMore"} THEN "pending"
                   ELSE refreshDataSettles(name \in {"failed", "malformed"})
    IN  [op |-> name, reset |-> req.resetPagination,
         pre |-> Store, callPre |-> req.pre, overlapped |-> req.overlapped,
         page |-> page, puts |-> puts, settled |-> settled,
         toast |-> IF req.resetPagination THEN <<>>
                   ELSE loadMoreToast(settled)]

EmptyStore ==
    [all |-> <<>>, invalid |-> <<>>, offset |-> 0, hasMore |-> TRUE,
     total |-> 0]

InitOp ==
    [op |-> "init", reset |-> FALSE, pre |-> EmptyStore,
     callPre |-> EmptyStore, overlapped |-> FALSE, page |-> <<>>,
     puts |-> <<>>, settled |-> "pending", toast |-> <<>>]

(***************************************************************************)
(* refreshData(resetPagination) up to its fetch: lines 922-945.            *)
(***************************************************************************)
StartFetch(reset, platform, name) ==
    /\ calls < MaxCalls
    /\ calls' = calls + 1
    /\ IF reset
       THEN /\ currentOffset' = 0
            /\ hasMoreData' = TRUE
            /\ allApplications' = <<>>
       ELSE UNCHANGED <<currentOffset, hasMoreData, allApplications>>
    /\ LET req == [rid |-> calls + 1, resetPagination |-> reset,
                   offset |-> currentOffset', platform |-> platform,
                   pre |-> IF inflight = {} THEN Store ELSE EmptyStore,
                   overlapped |-> inflight # {}]
       IN  /\ inflight' = {[r EXCEPT !.overlapped = TRUE, !.pre = EmptyStore] :
                              r \in inflight} \cup {req}
           /\ lastOp' = Op(name, req, <<>>, <<>>)
    /\ UNCHANGED <<invalidApplications, totalApplications, serverApps, probe>>

\* initApp(): the first refreshData(); the handlers below are set up when
\* it has returned.
InitApp ==
    /\ calls = 0
    /\ StartFetch(TRUE, filterPlatform, "refresh")
    /\ UNCHANGED <<filterPlatform, isLoadingMore, listenersSetup>>

\* A filter select changes: refreshData(true) with the new value.
ChangeFilter(p) ==
    /\ listenersSetup
    /\ p # filterPlatform
    /\ filterPlatform' = p
    /\ StartFetch(TRUE, p, "refresh")
    /\ UNCHANGED <<isLoadingMore, listenersSetup>>

\* refreshData() after a form submit, a delete, clearFilters or a scan.
Refresh ==
    /\ listenersSetup
    /\ StartFetch(TRUE, filterPlatform, "refresh")
    /\ UNCHANGED <<filterPlatform, isLoadingMore, listenersSetup>>

\* loadMoreApplications()
LoadMore ==
    /\ listenersSetup
    /\ ~(isLoadingMore \/ ~hasMoreData)
    /\ isLoadingMore' = TRUE
    /\ StartFetch(FALSE, filterPlatform, "loadMore")
    /\ UNCHANGED <<filterPlatform, listenersSetup>>

\* refreshData returns to its caller; initApp goes on to
\* setupEventListeners().
Returned(req) ==
    /\ inflight' = inflight \ {req}
    /\ listenersSetup' = (listenersSetup \/ req.rid = 1)

\* The response arrives and decodes to a page.
LoadComplete(req, shape) ==
    LET page    == ServerPage(req)
        newApps == page.applications
        done    == ProcessPage(newApps)
        reset   == req.resetPagination
    IN  /\ hasMoreData' = HasMoreOf(shape, page)
        /\ totalApplications' = TotalOf(shape, page)
        /\ invalidApplications' =
               NextInvalid(reset, invalidApplications, done.invalid)
        /\ allApplications' = NextAll(reset, allApplications, done.valid)
        /\ currentOffset' = NextOffset(currentOffset, allApplications', newApps)
        /\ isLoadingMore' = FALSE
        /\ Returned(req)
        /\ lastOp' = Op("loaded", req, newApps, done.puts)
        /\ UNCHANGED <<filterPlatform, serverApps, calls, probe>>

\* fetch rejects (network failure) or res.json() rejects (undecodable body):
\* catch, finally.
LoadFail(req) ==
    /\ isLoadingMore' = FALSE
    /\ Returned(req)
    /\ lastOp' = Op("failed", req, <<>>, <<>>)
    /\ UNCHANGED <<allApplications, invalidApplications, currentOffset,
                   hasMoreData, totalApplications, filterPlatform, serverApps,
                   calls, probe>>

\* res.status === 401: clearAuth(), showLanding(), return; finally.
LoadUnauthorized(req) ==
    /\ isLoadingMore' = FALSE
    /\ Returned(req)
    /\ lastOp' = Op("unauthorized", req, <<>>, <<>>)
    /\ UNCHANGED <<allApplications, invalidApplications, currentOffset,
                   hasMoreData, totalApplications, filterPlatform, serverApps,
                   calls, probe>>

\* The body decodes to an object that is neither envelope nor list, such as
\* {"error": ...}: newApps is that object, has_more and total are read from
\* it, and newApps.forEach throws.
LoadMalformed(req) ==
    /\ hasMoreData' = FALSE
    /\ totalApplications' = -1
    /\ invalidApplications' =
           IF req.resetPagination THEN <<>> ELSE invalidApplications
    /\ isLoadingMore' = FALSE
    /\ Returned(req)
    /\ lastOp' = Op("malformed", req, <<>>, <<>>)
    /\ UNCHANGED <<allApplications, currentOffset, filterPlatform, serverApps,
                   calls, probe>>

IdleProbe ==
    [phase |-> "idle"]

\* No auto-fix request dispatched, no response received.
NoResponse ==
    [shape |-> "none", has_more |-> FALSE, total |-> 0]

FixIdle ==
    /\ autoFixes = <<>>
    /\ lastResponse = NoResponse

\* let onboardingGuide = null
NoGuide ==
    [made |-> FALSE, isCompleted |-> FALSE, currentStep |-> 0]

\* The page as loaded: no guide made, the overlay not shown.
OnbIdle ==
    /\ onboardingGuide = NoGuide
    /\ overlay = [active |-> FALSE, step |-> 0]
    /\ onbOp = [op |-> "init", flag |-> localStorage, everReset |-> FALSE]

\* pollScanStatus not called yet.
IdlePoller ==
    [state |-> "idle", attempts |-> 0, requests |-> 0, notices |-> 0,
     last |-> "none", awaiting |-> 0, terminalAt |-> -1]

NoHighlights ==
    [updated |-> {}, new |-> {}]

\* let recentlyUpdatedIds = new Set(); let recentlyImportedIds = new Set()
ScanIdle ==
    /\ poller = IdlePoller
    /\ recentlyUpdatedIds = {}
    /\ recentlyImportedIds = {}
    /\ clearTimers = [poll |-> 0, manual |-> 0]
    /\ rendered = NoHighlights
    /\ scans = 0
    /\ scanLog = [op |-> "init", marked |-> NoHighlights, by |-> "none",
                  cleared |-> FALSE, timer |-> "none"]

\* No response has arrived.
RaceIdle ==
    arrivals = <<>>

AuxIdle ==
    /\ FixIdle
    /\ localStorage = "null"
    /\ OnbIdle
    /\ ScanIdle
    /\ RaceIdle

Init ==
    /\ allApplications = <<>>
    /\ invalidApplications = <<>>
    /\ currentOffset = 0
    /\ hasMoreData = TRUE
    /\ isLoadingMore = FALSE
    /\ totalApplications = 0
    /\ filterPlatform = Empty
    /\ serverApps \in Collections
    /\ inflight = {}
    /\ calls = 0
    /\ listenersSetup = FALSE
    /\ lastOp = InitOp
    /\ probe = IdleProbe
    /\ AuxIdle

Next ==
    \/ InitApp /\ UNCHANGED auxVars
    \/ \E p \in Platforms : ChangeFilter(p) /\ UNCHANGED auxVars
    \/ Refresh /\ UNCHANGED auxVars
    \/ LoadMore /\ UNCHANGED auxVars
    \/ \E req \in inflight, shape \in Shapes :
           LoadComplete(req, shape) /\ UNCHANGED auxVars
    \/ \E req \in inflight : LoadFail(req) /\ UNCHANGED auxVars
    \/ \E req \in inflight : LoadUnauthorized(req) /\ UNCHANGED auxVars
    \/ \E req \in inflight : LoadMalformed(req) /\ UNCHANGED auxVars

Spec ==
    Init /\ [][Next]_vars

(***************************************************************************)
(* Reconciliation and validation of one record, on their own: the record   *)
(* is drawn from InputApps, reconciled (once, and once again) and          *)
(* validated, before or after reconciliation.                              *)
(***************************************************************************)
HistoryEntries ==
    [status : {StApplied, StInterviewed, StBogus}, date : 1..MaxDate]

Histories ==
    UNION {[1..n -> HistoryEntries] : n \in 0..MaxHist}

InputApps ==
    [id             : {1},
     company        : {Undef, Blank, Acme},
     role           : {Blank, Engineer},
     status         : {Undef, StApplied, StInterviewed, StBogus, StAppliedPadded},
     platform       : {Null, LinkedIn},
     applied_date   : {Undef, DateIso, DateDmy, DateLong},
     status_history : Histories]

\* probe.before is the record before the last reconciliation, probe.puts
\* the PUTs that reconciliation dispatched, probe.sent all PUTs so far.
ReconcileStep ==
    /\ probe.phase \in {"fetched", "reconciled"}
    /\ LET r == reconcile(probe.app)
       IN  probe' = [probe EXCEPT
                        !.phase  = IF probe.phase = "fetched"
                                   THEN "reconciled" ELSE "reconciledAgain",
                        !.before = probe.app,
                        !.app    = r.app,
                        !.puts   = r.puts,
                        !.sent   = probe.sent \o r.puts]
    /\ UNCHANGED <<storeVars, auxVars>>

\* probe.from is the phase validateApplication was called in.
ValidateStep ==
    /\ probe.phase \in {"fetched", "reconciled", "reconciledAgain"}
    /\ probe' = [probe EXCEPT !.phase   = "validated",
                              !.from    = probe.phase,
                              !.verdict = validateApplication(probe.app)]
    /\ UNCHANGED <<storeVars, auxVars>>

PureInit ==
    /\ allApplications = <<>>
    /\ invalidApplications = <<>>
    /\ currentOffset = 0
    /\ hasMoreData = TRUE
    /\ isLoadingMore = FALSE
    /\ totalApplications = 0
    /\ filterPlatform = Empty
    /\ serverApps = <<>>
    /\ inflight = {}
    /\ calls = 0
    /\ listenersSetup = FALSE
    /\ lastOp = InitOp
    /\ \E a \in InputApps :
           probe = [phase |-> "fetched", from |-> "fetched", orig |-> a,
                    before |-> a, app |-> a, puts |-> <<>>, sent |-> <<>>,
                    verdict |-> FALSE]
    /\ AuxIdle

PureNext ==
    \/ ReconcileStep
    \/ ValidateStep

SpecPure ==
    PureInit /\ [][PureNext]_vars

(***************************************************************************)
(* The auto-fix requests of a load, followed to their outcome: the first   *)
(* load and loadMore over a backend that also holds records no             *)
(* reconciliation makes valid.                                             *)
(***************************************************************************)
\* no role: invalid.
NoRoleApp ==
    [company |-> Acme, role |-> Empty, status |-> StApplied,
     platform |-> LinkedIn, applied_date |-> DateIso,
     status_history |-> <<>>]

\* status behind its history, whose latest status is not in the enum.
StaleBogusApp ==
    [company |-> Acme, role |-> Engineer, status |-> StApplied,
     platform |-> Indeed, applied_date |-> DateIso,
     status_history |-> <<[status |-> StApplied, date |-> 1],
                          [status |-> StBogus, date |-> 2]>>]

FixTemplates ==
    {ValidApp, StaleApp, NoRoleApp, StaleBogusApp}

FixCollections ==
    UNION {{[i \in 1..n |-> WithId(f[i], i)] : f \in [1..n -> FixTemplates]} :
           n \in 0..MaxServer}

\* autoFixApplication has called authFetch: the PUTs are on their way.
Pending(puts) ==
    [i \in 1..Len(puts) |->
        [id |-> puts[i].id, status |-> puts[i].status, state |-> "pending"]]

\* await authFetch(...) resolves (console.log) or rejects (console.warn).
Outcomes ==
    {"fixed", "failed"}

FixInitApp ==
    /\ InitApp
    /\ UNCHANGED <<fixVars, besideFix>>

FixLoadMore ==
    /\ LoadMore
    /\ UNCHANGED <<fixVars, besideFix>>

\* The response arrives; the PUTs of its mismatched records are dispatched.
\* The PUTs of earlier loads are followed no further.
FixLoadComplete(req, shape) ==
    /\ LoadComplete(req, shape)
    /\ autoFixes' = Pending(lastOp'.puts)
    /\ lastResponse' = [shape    |-> shape,
                        has_more |-> ServerPage(req).has_more,
                        total    |-> ServerPage(req).total]
    /\ UNCHANGED besideFix

\* The PUT of autoFixes[i] settles: a line on the console, nothing else.
AutoFixSettles(i, outcome) ==
    /\ autoFixes[i].state = "pending"
    /\ autoFixes' = [autoFixes EXCEPT ![i].state = outcome]
    /\ UNCHANGED <<storeVars, probe, lastResponse, besideFix>>

FixInit ==
    /\ allApplications = <<>>
    /\ invalidApplications = <<>>
    /\ currentOffset = 0
    /\ hasMoreData = TRUE
    /\ isLoadingMore = FALSE
    /\ totalApplications = 0
    /\ filterPlatform = Empty
    /\ serverApps \in FixCollections
    /\ inflight = {}
    /\ calls = 0
    /\ listenersSetup = FALSE
    /\ lastOp = InitOp
    /\ probe = IdleProbe
    /\ AuxIdle

FixNext ==
    \/ FixInitApp
    \/ FixLoadMore
    \/ \E req \in inflight, shape \in Shapes \cup PartialShapes :
           FixLoadComplete(req, shape)
    \/ \E i \in 1..Len(autoFixes), outcome \in Outcomes :
           AutoFixSettles(i, outcome)

SpecFix ==
    FixInit /\ [][FixNext]_vars

(***************************************************************************)
(* The onboarding guide, onboarding.js.  The state of the guide is         *)
(* g = [ls, guide, overlay]: the localStorage item, the instance and the   *)
(* overlay; each method is the change it makes to g.                       *)
(***************************************************************************)
\* this.totalSteps = 5
totalSteps == 5

\* localStorage.getItem(...) === 'true'
checkOnboardingStatus(ls) ==
    ls = "true"

\* new OnboardingGuide()
NewGuide(ls) ==
    [made |-> TRUE, isCompleted |-> checkOnboardingStatus(ls),
     currentStep |-> 0]

\* render(): the step element of currentStep is the active one.
render(g) ==
    [g EXCEPT !.overlay.step = g.guide.currentStep]

\* hide()
hide(g) ==
    [g EXCEPT !.overlay.active = FALSE]

\* Faulty variant: the instance is marked, the item is not written.
markCompleted_InstanceOnly(g) ==
    [g EXCEPT !.guide.isCompleted = TRUE]

\* markCompleted()
markCompleted(g) ==
    [g EXCEPT !.ls = "true", !.guide.isCompleted = TRUE]

\* show(onActionCallback)
show(g) ==
    IF g.guide.isCompleted THEN g
    ELSE [render([g EXCEPT !.guide.currentStep = 0])
              EXCEPT !.overlay.active = TRUE]

\* skip(), complete(), dismiss(): markCompleted(), hide(); the first two
\* show a toast as well.
skip(g) ==
    hide(markCompleted(g))

complete(g) ==
    hide(markCompleted(g))

dismiss(g) ==
    hide(markCompleted(g))

\* next()
next(g) ==
    IF g.guide.currentStep < totalSteps - 1
    THEN render([g EXCEPT !.guide.currentStep = @ + 1])
    ELSE complete(g)

\* previous()
previous(g) ==
    IF g.guide.currentStep > 0
    THEN render([g EXCEPT !.guide.currentStep = @ - 1])
    ELSE g

\* goToStep(stepNumber)
goToStep(g, stepNumber) ==
    IF stepNumber >= 0 /\ stepNumber < totalSteps
    THEN render([g EXCEPT !.guide.currentStep = stepNumber])
    ELSE g

\* function showOnboarding(onActionCallback)
showOnboarding(g) ==
    show(IF g.guide.made THEN g ELSE [g EXCEPT !.guide = NewGuide(g.ls)])

\* function hideOnboarding()
hideOnboarding(g) ==
    IF g.guide.made THEN dismiss(g) ELSE g

\* function resetOnboarding(), and the method of that name
resetOnboarding(g) ==
    IF g.guide.made
    THEN [g EXCEPT !.ls = "null", !.guide.isCompleted = FALSE,
                   !.guide.currentStep = 0]
    ELSE [g EXCEPT !.ls = "null"]

Guide ==
    [ls |-> localStorage, guide |-> onboardingGuide, overlay |-> overlay]

\* One call: the guide becomes g2; onbOp keeps the call's name, the item
\* before it, and whether resetOnboarding has ever removed a 'true' item.
OnbStep(name, g2) ==
    /\ localStorage' = g2.ls
    /\ onboardingGuide' = g2.guide
    /\ overlay' = g2.overlay
    /\ onbOp' = [op |-> name, flag |-> localStorage,
                 everReset |-> \/ onbOp.everReset
                               \/ name = "reset" /\ localStorage = "true"]
    /\ UNCHANGED besideOnb

\* initApp and restartOnboardingTutorial call showOnboarding.
ShowOnboarding ==
    OnbStep("show", showOnboarding(Guide))

\* handleOnboardingAction calls hideOnboarding.
HideOnboarding ==
    OnbStep("dismiss", hideOnboarding(Guide))

\* The buttons of the overlay, while it is shown.
ClickNext ==
    /\ overlay.active
    /\ OnbStep(IF onboardingGuide.currentStep < totalSteps - 1
               THEN "next" ELSE "complete", next(Guide))

ClickPrevious ==
    /\ overlay.active
    /\ OnbStep("previous", previous(Guide))

ClickSkip ==
    /\ overlay.active
    /\ OnbStep("skip", skip(Guide))

ClickStep(n) ==
    /\ overlay.active
    /\ OnbStep("goToStep", goToStep(Guide, n))

\* restartOnboardingTutorial calls resetOnboarding.
ResetOnboarding ==
    OnbStep("reset", resetOnboarding(Guide))

\* The page is loaded again: let onboardingGuide = null, no overlay shown;
\* the item stays.
Reload ==
    OnbStep("reload", [ls |-> localStorage, guide |-> NoGuide,
                       overlay |-> [active |-> FALSE, step |-> 0]])

OnbInit ==
    /\ allApplications = <<>>
    /\ invalidApplications = <<>>
    /\ currentOffset = 0
    /\ hasMoreData = TRUE
    /\ isLoadingMore = FALSE
    /\ totalApplications = 0
    /\ filterPlatform = Empty
    /\ serverApps = <<>>
    /\ inflight = {}
    /\ calls = 0
    /\ listenersSetup = FALSE
    /\ lastOp = InitOp
    /\ probe = IdleProbe
    /\ FixIdle
    /\ localStorage \in {"null", "true"}
    /\ OnbIdle
    /\ ScanIdle
    /\ RaceIdle

OnbNext ==
    \/ ShowOnboarding
    \/ HideOnboarding
    \/ ClickNext
    \/ ClickPrevious
    \/ ClickSkip
    \/ \E n \in -1..totalSteps : ClickStep(n)
    \/ ResetOnboarding
    \/ Reload

SpecOnboard ==
    OnbInit /\ [][OnbNext]_vars

(***************************************************************************)
(* The scan poller (pollScanStatus), the manual scan (startGmailScan) and  *)
(* the highlight sets.                                                     *)
(***************************************************************************)
\* const maxAttempts = 60
maxAttempts == 60

\* Longest result.applications.
MaxApps == 2
\* Results of startGmailScan handled in one behaviour.
MaxScans == 1

\* The _action tags of the records a scan lists.
ActionTags ==
    {"new", "updated"}

\* Record ids in a scan result.
ScanIds ==
    {1, 2}

ScanApps ==
    UNION {[1..n -> [id : ScanIds, _action : ActionTags]] : n \in 0..MaxApps}

Tagged(apps, tag) ==
    {j \in 1..Len(apps) : apps[j]._action = tag}

\* The result of a scan, {found, imported, updated, applications}: the
\* records imported or updated are listed with their tag; found counts the
\* listed ones and, with more = 1, an email that led to no record.
ScanResult(apps, more) ==
    [found        |-> Len(apps) + more,
     imported     |-> Cardinality(Tagged(apps, "new")),
     updated      |-> Cardinality(Tagged(apps, "updated")),
     applications |-> apps]

ScanResults ==
    {ScanResult(apps, 0) : apps \in ScanApps} \cup {ScanResult(<<>>, 1)}

\* applications.forEach: if (app._action === "updated")
\* recentlyUpdatedIds.add(app.id)
MarkUpdated(apps) ==
    {apps[i].id : i \in Tagged(apps, "updated")}

\* else if (app._action === "new") recentlyImportedIds.add(app.id)
MarkImported(apps) ==
    {apps[i].id : i \in Tagged(apps, "new")}

\* Both sets are cleared, then filled from the list.
Mark(apps) ==
    /\ recentlyUpdatedIds' = MarkUpdated(apps)
    /\ recentlyImportedIds' = MarkImported(apps)

Log(name) ==
    [scanLog EXCEPT !.op = name]

\* pollScanStatus(): setTimeout(poll, 3000)
PollStart ==
    /\ poller.state = "idle"
    /\ poller' = [poller EXCEPT !.state = "timer"]
    /\ scanLog' = Log("pollStart")
    /\ UNCHANGED <<storeVars, recentlyUpdatedIds, recentlyImportedIds,
                   clearTimers, rendered, scans, besideScan>>

\* The timer fires: poll() calls authFetch(`${API}/scan/status`).
PollFire ==
    /\ poller.state = "timer"
    /\ poller' = [poller EXCEPT !.state = "request", !.requests = @ + 1]
    /\ scanLog' = Log("pollFire")
    /\ UNCHANGED <<storeVars, recentlyUpdatedIds, recentlyImportedIds,
                   clearTimers, rendered, scans, besideScan>>

\* Faulty variant: if (attempts <= maxAttempts).
Reschedule_OneMore(attempts) ==
    attempts <= maxAttempts

\* if (attempts < maxAttempts) setTimeout(poll, 2000)
Reschedule(attempts) ==
    attempts < maxAttempts

\* Faulty variant: a terminal status schedules a further poll.
AfterTerminal_PollsAgain(status) ==
    "timer"

\* After "done" without result, "error" (console.error), or any other
\* status: no branch schedules anything.
AfterTerminal(status) ==
    "stopped"

\* The status observed; terminalAt is the number of requests issued when a
\* status other than "scanning" was first observed.
Observed(p, status) ==
    [p EXCEPT !.last = status,
              !.terminalAt = IF status # "scanning" /\ p.terminalAt = -1
                             THEN p.requests ELSE p.terminalAt]

\* data.status === "scanning"
PollScanning ==
    /\ poller.state = "request"
    /\ poller' = [Observed(poller, "scanning") EXCEPT
                      !.attempts = @ + 1,
                      !.state = IF Reschedule(poller.attempts + 1)
                                THEN "timer" ELSE "stopped"]
    /\ scanLog' = Log("scanning")
    /\ UNCHANGED <<storeVars, recentlyUpdatedIds, recentlyImportedIds,
                   clearTimers, rendered, scans, besideScan>>

\* Faulty variant: the notice without the test of found.
UpToDateNotice_Always(r) ==
    1

\* else if (r.found > 0) showToast("Auto-scan complete ...", "info"): the
\* number of notices shown when nothing was imported or updated.
UpToDateNotice(r) ==
    IF r.found > 0 THEN 1 ELSE 0

\* data.status === "done" && data.result.  The first poll fires 3 s after
\* showApp(): initApp has called refreshData by then (calls > 0).
PollDone(r) ==
    /\ poller.state = "request"
    /\ IF r.imported > 0 \/ r.updated > 0
       THEN /\ calls > 0
            /\ Mark(r.applications)
            /\ StartFetch(TRUE, filterPlatform, "refresh")
            /\ poller' = [Observed(poller, "done") EXCEPT
                              !.notices = @ + 1,
                              !.state = "refreshing",
                              !.awaiting = calls + 1]
            /\ scanLog' = [op |-> "pollMarked",
                           marked |-> [updated |-> recentlyUpdatedIds',
                                       new |-> recentlyImportedIds'],
                           by |-> "poll", cleared |-> FALSE,
                           timer |-> scanLog.timer]
            /\ UNCHANGED <<filterPlatform, isLoadingMore, listenersSetup>>
       ELSE /\ poller' = [Observed(poller, "done") EXCEPT
                              !.notices = @ + UpToDateNotice(r),
                              !.state = "stopped"]
            /\ scanLog' = Log(IF r.found > 0 THEN "pollUpToDate"
                              ELSE "pollSilent")
            /\ UNCHANGED <<storeVars, recentlyUpdatedIds,
                           recentlyImportedIds>>
    /\ UNCHANGED <<clearTimers, rendered, scans, besideScan>>

\* "done" without a result, "error", "idle".
PollTerminal(status) ==
    /\ poller.state = "request"
    /\ poller' = [Observed(poller, status) EXCEPT
                      !.state = AfterTerminal(status)]
    /\ scanLog' = Log("pollTerminal")
    /\ UNCHANGED <<storeVars, recentlyUpdatedIds, recentlyImportedIds,
                   clearTimers, rendered, scans, besideScan>>

\* authFetch or res.json() rejects: catch (e) { }, nothing is scheduled.
PollFail ==
    /\ poller.state = "request"
    /\ poller' = [poller EXCEPT !.last = "failure", !.state = "stopped"]
    /\ scanLog' = Log("pollFailure")
    /\ UNCHANGED <<storeVars, recentlyUpdatedIds, recentlyImportedIds,
                   clearTimers, rendered, scans, besideScan>>

\* startGmailScan, the response shown (res.ok): on imported or updated
\* records mark, refreshData() not awaited, and the clearing timer set.
ManualScan(r) ==
    /\ listenersSetup
    /\ scans < MaxScans
    /\ scans' = scans + 1
    /\ IF r.imported > 0 \/ r.updated > 0
       THEN /\ Mark(r.applications)
            /\ StartFetch(TRUE, filterPlatform, "refresh")
            /\ clearTimers' = [clearTimers EXCEPT !.manual = @ + 1]
            /\ scanLog' = [op |-> "manualMarked",
                           marked |-> [updated |-> recentlyUpdatedIds',
                                       new |-> recentlyImportedIds'],
                           by |-> "manual", cleared |-> FALSE,
                           timer |-> scanLog.timer]
            /\ UNCHANGED <<filterPlatform, isLoadingMore, listenersSetup>>
       ELSE /\ scanLog' = Log("manualScan")
            /\ UNCHANGED <<storeVars, recentlyUpdatedIds,
                           recentlyImportedIds, clearTimers>>
    /\ UNCHANGED <<poller, rendered, besideScan>>

\* Faulty variant: the poller goes on without setting the timer.
AfterReload_NoTimer(timers) ==
    timers

\* setTimeout(() => { ...clear(); render...() }, 10000) after
\* await refreshData()
AfterReload(timers) ==
    [timers EXCEPT !.poll = @ + 1]

\* refreshData returns: the poller that awaited this call goes on.
PollResumes(req, name) ==
    IF poller.state = "refreshing" /\ poller.awaiting = req.rid
    THEN /\ clearTimers' = AfterReload(clearTimers)
         /\ poller' = [poller EXCEPT !.state = "stopped"]
         /\ scanLog' = Log("re" \o name)
    ELSE /\ scanLog' = Log(name)
         /\ UNCHANGED <<clearTimers, poller>>

\* The response arrives: renderDashboard(), renderApplicationsTable().
ScanLoadComplete(req, shape) ==
    /\ LoadComplete(req, shape)
    /\ rendered' = [updated |-> recentlyUpdatedIds,
                    new     |-> recentlyImportedIds]
    /\ PollResumes(req, "loaded")
    /\ UNCHANGED <<recentlyUpdatedIds, recentlyImportedIds, scans,
                   fixVars, onbVars, raceVars>>

\* The fetch fails: nothing is rendered.
ScanLoadFail(req) ==
    /\ LoadFail(req)
    /\ PollResumes(req, "loadFailed")
    /\ UNCHANGED <<recentlyUpdatedIds, recentlyImportedIds, rendered, scans,
                   fixVars, onbVars, raceVars>>

\* A clearing timer fires: both sets cleared, renderDashboard(),
\* renderApplicationsTable().
ClearTimerFires(owner) ==
    /\ clearTimers[owner] > 0
    /\ clearTimers' = [clearTimers EXCEPT ![owner] = @ - 1]
    /\ recentlyUpdatedIds' = {}
    /\ recentlyImportedIds' = {}
    /\ rendered' = NoHighlights
    /\ scanLog' = [scanLog EXCEPT
                       !.op = "expired",
                       !.cleared = (recentlyUpdatedIds \cup
                                    recentlyImportedIds) # {},
                       !.timer = owner]
    /\ UNCHANGED <<storeVars, poller, scans, besideScan>>

ScanInitApp ==
    /\ InitApp
    /\ UNCHANGED auxVars

\* The backend of the scan specifications.
ScanCollections ==
    {<<WithId(ValidApp, 1), WithId(StaleApp, 2)>>}

ScanInit ==
    /\ allApplications = <<>>
    /\ invalidApplications = <<>>
    /\ currentOffset = 0
    /\ hasMoreData = TRUE
    /\ isLoadingMore = FALSE
    /\ totalApplications = 0
    /\ filterPlatform = Empty
    /\ serverApps \in ScanCollections
    /\ inflight = {}
    /\ calls = 0
    /\ listenersSetup = FALSE
    /\ lastOp = InitOp
    /\ probe = IdleProbe
    /\ AuxIdle

LoadFails ==
    \E req \in inflight : ScanLoadFail(req)

LoadSettles ==
    \/ \E req \in inflight, shape \in Shapes : ScanLoadComplete(req, shape)
    \/ LoadFails

TimerFires ==
    \E owner \in {"poll", "manual"} : ClearTimerFires(owner)

\* One run of the poller, to its end.
PollNext ==
    \/ ScanInitApp
    \/ PollStart
    \/ PollFire
    \/ PollScanning
    \/ \E r \in ScanResults : PollDone(r)
    \/ \E status \in {"done", "error", "idle"} : PollTerminal(status)
    \/ PollFail
    \/ LoadSettles
    \/ TimerFires

SpecPoll ==
    ScanInit /\ [][PollNext]_vars

\* The poller and the manual scan side by side; the scan the poller waits
\* for is over when the first poll fires.
ScanNext ==
    \/ ScanInitApp
    \/ PollStart
    \/ PollFire
    \/ \E r \in ScanResults : PollDone(r)
    \/ \E status \in {"done", "error", "idle"} : PollTerminal(status)
    \/ PollFail
    \/ \E r \in ScanResults : ManualScan(r)
    \/ LoadSettles
    \/ TimerFires

SpecScan ==
    ScanInit /\ [][ScanNext]_vars

\* No fetch stays pending for ever, and every timer fires.  The first is
\* stated on the failure of a fetch: that step is possible exactly while a
\* fetch is pending, so it is demanded only of a fetch that no response
\* answers.
SpecScanFair ==
    /\ SpecScan
    /\ WF_vars(LoadFails)
    /\ WF_vars(TimerFires)

(***************************************************************************)
(* Overlapping loads: the store's steps with the order of arrival of the   *)
(* responses kept.  refreshData holds no request counter, no               *)
(* AbortController and no lock: whichever response arrives is applied.     *)
(***************************************************************************)
RaceTemplates ==
    {ValidApp, StaleApp}

RaceCollections ==
    {[i \in 1..MaxServer |-> WithId(f[i], i)] :
        f \in [1..MaxServer -> RaceTemplates]}

\* The response to req has arrived and was applied.
Arrived(req) ==
    arrivals' = Append(arrivals, [rid      |-> req.rid,
                                  reset    |-> req.resetPagination,
                                  platform |-> req.platform])

RaceInitApp ==
    /\ InitApp
    /\ UNCHANGED auxVars

RaceChangeFilter(p) ==
    /\ ChangeFilter(p)
    /\ UNCHANGED auxVars

RaceRefresh ==
    /\ Refresh
    /\ UNCHANGED auxVars

RaceLoadMore ==
    /\ LoadMore
    /\ UNCHANGED auxVars

RaceLoadComplete(req, shape) ==
    /\ LoadComplete(req, shape)
    /\ Arrived(req)
    /\ UNCHANGED <<fixVars, onbVars, scanVars>>

RaceLoadFail(req) ==
    /\ LoadFail(req)
    /\ UNCHANGED auxVars

RaceInit ==
    /\ allApplications = <<>>
    /\ invalidApplications = <<>>
    /\ currentOffset = 0
    /\ hasMoreData = TRUE
    /\ isLoadingMore = FALSE
    /\ totalApplications = 0
    /\ filterPlatform = Empty
    /\ serverApps \in RaceCollections
    /\ inflight = {}
    /\ calls = 0
    /\ listenersSetup = FALSE
    /\ lastOp = InitOp
    /\ probe = IdleProbe
    /\ AuxIdle

RaceNext ==
    \/ RaceInitApp
    \/ \E p \in Platforms : RaceChangeFilter(p)
    \/ RaceRefresh
    \/ RaceLoadMore
    \/ \E req \in inflight, shape \in Shapes : RaceLoadComplete(req, shape)
    \/ \E req \in inflight : RaceLoadFail(req)

SpecRace ==
    RaceInit /\ [][RaceNext]_vars

(***************************************************************************)
(* What the properties are stated against: the record invariant and the    *)
(* validity of a record as the data model defines them, written without    *)
(* the code's sort and early returns.                                       *)
(***************************************************************************)
StatusEnum ==
    {StApplied, StViewed, StInReview, StPhoneScreen, StInterviewScheduled,
     StInterviewed, StTechnicalRound, StHRRound, StAssessment,
     StOfferReceived, StAccepted, StRejected, StWithdrawn, StGhosted}

\* Entry i has the latest date of h; of several entries with that date it
\* is the first.
IsLatestEntry(h, i) ==
    \A j \in 1..Len(h) :
        \/ h[j].date < h[i].date
        \/ h[j].date = h[i].date /\ i <= j

LatestStatus(h) ==
    h[CHOOSE i \in 1..Len(h) : IsLatestEntry(h, i)].status

\* Present, and not empty after trimming.
NonBlank(s) ==
    /\ s \notin {Undef, Null}
    /\ \E i \in 1..Len(s) : ~IsSpace(s[i])

\* YYYY-MM-DD
IsIsoDate(s) ==
    /\ s \notin {Undef, Null}
    /\ Len(s) = 10
    /\ \A i \in 1..10 : IF i \in {5, 8} THEN s[i] = "-" ELSE s[i] \in Digits

IsValidRecord(a) ==
    /\ NonBlank(a.company)
    /\ NonBlank(a.role)
    /\ NonBlank(a.status)
    /\ NonBlank(a.platform)
    /\ IsIsoDate(a.applied_date)
    /\ a.status \in StatusEnum
    /\ Len(a.status_history) > 0 => a.status = LatestStatus(a.status_history)

\* The record with its status set to that of its latest history entry.
Healed(a) ==
    IF Len(a.status_history) > 0
    THEN [a EXCEPT !.status = LatestStatus(a.status_history)]
    ELSE a

\* The records of a page that are invalid once healed, in page order.
InvalidOfPage(page) ==
    SelectSeq([i \in 1..Len(page) |-> Healed(page[i])],
              LAMBDA a : ~IsValidRecord(a))

IsPrefix(s, t) ==
    /\ Len(s) <= Len(t)
    /\ SubSeq(t, 1, Len(s)) = s

(***************************************************************************)
(* C1.  After any sequence of completed loads, reset or append, every      *)
(* record held in allApplications is valid; in particular the status of a  *)
(* held record with a history is the status of its latest history entry.   *)
(***************************************************************************)
C1_HeldRecordsValid ==
    \A i \in 1..Len(allApplications) :
        /\ IsValidRecord(allApplications[i])
        /\ Len(allApplications[i].status_history) > 0 =>
               allApplications[i].status =
                   LatestStatus(allApplications[i].status_history)

\* A load has completed and the store holds a record whose status was
\* healed to its latest history entry, next to further records.
C1_Witness ==
    /\ lastOp.op = "loaded"
    /\ Len(lastOp.page) > 1
    /\ lastOp.puts # <<>>
    /\ \E i \in 1..Len(allApplications) :
           allApplications[i].status = StInterviewed
    /\ invalidApplications # <<>>

(***************************************************************************)
(* C2.  A load that fails, by a network error or by a response that does   *)
(* not decode or is malformed, leaves the store (valid records, invalid    *)
(* list, offset, hasMore, total) as it was before the call.  Stated for a  *)
(* call that no other call overlapped.                                     *)
(***************************************************************************)
C2_FailedLoadLeavesStore ==
    (lastOp.op \in {"failed", "malformed"} /\ ~lastOp.overlapped) =>
        Store = lastOp.callPre

(***************************************************************************)
(* C3.  No two page fetches are in flight at the same time.                *)
(***************************************************************************)
C3_NoOverlappingFetches ==
    Cardinality(inflight) <= 1

(***************************************************************************)
(* C4.  With the filter fixed, every completed append to which the         *)
(* backend answers with records and has_more = true strictly grows the     *)
(* number of valid records held; and loadMore starts a fetch only while    *)
(* hasMoreData is true.                                                    *)
(***************************************************************************)
C4_AppendGrows ==
    /\ (/\ lastOp.op = "loaded"
        /\ ~lastOp.reset
        /\ ~lastOp.overlapped
        /\ hasMoreData
        /\ lastOp.page # <<>>) =>
           Len(allApplications) > Len(lastOp.pre.all)
    /\ lastOp.op = "loadMore" => lastOp.pre.hasMore

(***************************************************************************)
(* C5.  After every load that completed successfully, currentOffset is     *)
(* the number of valid records held, however many fetched records were     *)
(* dropped as invalid.                                                     *)
(***************************************************************************)
C5_OffsetIsValidCount ==
    lastOp.op = "loaded" => currentOffset = Len(allApplications)

\* An append has completed, the backend has returned more records than the
\* store holds, and some are held.
C5_Witness ==
    /\ lastOp.op = "loaded"
    /\ ~lastOp.reset
    /\ ~lastOp.overlapped
    /\ Len(allApplications) > 0
    /\ Len(allApplications) < Len(lastOp.pre.all) + Len(lastOp.page)
    /\ currentOffset = Len(allApplications)

(***************************************************************************)
(* C6, as claimed.  An append leaves the invalid list unchanged; the       *)
(* invalid list changes only in a reset load.                              *)
(***************************************************************************)
C6_InvalidChangesOnlyOnReset ==
    invalidApplications # lastOp.pre.invalid => lastOp.reset

(***************************************************************************)
(* C6, amended.  A completed append appends to the invalid list, in page   *)
(* order, the fetched records that fail validation, and leaves the         *)
(* entries already there in place; entries are removed only by a reset     *)
(* load.                                                                   *)
(***************************************************************************)
C6_AppendExtendsInvalid ==
    /\ (lastOp.op = "loaded" /\ ~lastOp.reset) =>
           invalidApplications =
               lastOp.pre.invalid \o InvalidOfPage(lastOp.page)
    /\ ~IsPrefix(lastOp.pre.invalid, invalidApplications) => lastOp.reset

\* An append has completed whose page held an invalid record, with entries
\* in the invalid list before it.
C6_Witness ==
    /\ lastOp.op = "loaded"
    /\ ~lastOp.reset
    /\ lastOp.pre.invalid # <<>>
    /\ Len(invalidApplications) > Len(lastOp.pre.invalid)

(***************************************************************************)
(* C7.  After a successful reset load whose response holds no invalid      *)
(* record, the invalid list is empty, whatever it held before.             *)
(***************************************************************************)
C7_ResetClearsInvalid ==
    (/\ lastOp.op = "loaded"
     /\ lastOp.reset
     /\ InvalidOfPage(lastOp.page) = <<>>) =>
        invalidApplications = <<>>

\* A reset load of a page without invalid records has completed, and the
\* invalid list held entries before it.
C7_Witness ==
    /\ lastOp.op = "loaded"
    /\ lastOp.reset
    /\ lastOp.page # <<>>
    /\ InvalidOfPage(lastOp.page) = <<>>
    /\ lastOp.pre.invalid # <<>>
    /\ invalidApplications = <<>>

(***************************************************************************)
(* C8.  Reconciling a fetched record that has a history and whose status   *)
(* differs from the status of its latest history entry sets the record's   *)
(* status to that status and dispatches exactly one update request, for    *)
(* that record and carrying that status; the history and the other fields  *)
(* are left as they were.                                                  *)
(***************************************************************************)
C8_ReconcileHeals ==
    LET h == probe.orig.status_history
    IN  (/\ probe.phase = "reconciled"
         /\ Len(h) > 0
         /\ probe.orig.status # LatestStatus(h)) =>
            /\ probe.app.status = LatestStatus(h)
            /\ probe.app = [probe.orig EXCEPT !.status = LatestStatus(h)]
            /\ probe.app.status_history = h
            /\ probe.puts = <<[id |-> probe.orig.id, status |-> LatestStatus(h)]>>

\* The record Applied with the history Applied at 1, Interviewed at 2 has
\* been reconciled: it is Interviewed, and one PUT was dispatched.
C8_Witness ==
    /\ probe.phase = "reconciled"
    /\ probe.orig.status = StApplied
    /\ probe.orig.status_history =
           <<[status |-> StApplied, date |-> 1],
             [status |-> StInterviewed, date |-> 2]>>
    /\ probe.app.status = StInterviewed
    /\ probe.puts = <<[id |-> probe.orig.id, status |-> StInterviewed]>>

(***************************************************************************)
(* C9.  Reconciling a record without history, or whose status already is   *)
(* that of its latest history entry, dispatches no update request and      *)
(* leaves the record unchanged; so reconciling a reconciled record again   *)
(* dispatches nothing.                                                     *)
(***************************************************************************)
C9_ReconcileNoOp ==
    /\ (/\ probe.phase \in {"reconciled", "reconciledAgain"}
        /\ \/ Len(probe.before.status_history) = 0
           \/ probe.before.status = LatestStatus(probe.before.status_history)) =>
           /\ probe.puts = <<>>
           /\ probe.app = probe.before
    /\ probe.phase = "reconciledAgain" =>
           /\ probe.puts = <<>>
           /\ probe.app = probe.before

\* A record that the first reconciliation healed, with a PUT, has been
\* reconciled again, without one.
C9_Witness ==
    /\ probe.phase = "reconciledAgain"
    /\ Len(probe.sent) = 1
    /\ probe.app.status # probe.orig.status
    /\ probe.puts = <<>>

(***************************************************************************)
(* C10.  validateApplication returns true exactly for the records with     *)
(* company, role, status and platform non-empty after trimming, an         *)
(* applied_date of the form YYYY-MM-DD, a status among the 14 status       *)
(* names and, if there is a history, the status of its latest entry; so a  *)
(* record without company, with status Bogus or with applied_date          *)
(* 01-02-2024 is invalid whatever its other fields.                        *)
(***************************************************************************)
C10_ValidateExact ==
    probe.phase = "validated" =>
        /\ probe.verdict = IsValidRecord(probe.app)
        /\ Cardinality(StatusEnum) = 14
        /\ probe.app.company = Undef => ~probe.verdict
        /\ probe.app.status = StBogus => ~probe.verdict
        /\ probe.app.applied_date = DateDmy => ~probe.verdict

\* A record as fetched, complete and consistent but for its applied_date
\* 01-02-2024, has been validated and rejected.
C10_Witness ==
    /\ probe.phase = "validated"
    /\ probe.from = "fetched"
    /\ probe.app.applied_date = DateDmy
    /\ IsValidRecord([probe.app EXCEPT !.applied_date = DateIso])
    /\ Len(probe.app.status_history) > 0
    /\ ~probe.verdict

(***************************************************************************)
(* The scenario of C11: the first page, of pageSize records, has come as   *)
(* an envelope; one record, mismatch, has a status that disagrees with its *)
(* latest history entry and is sound otherwise, and its PUT has failed;    *)
(* one record, norole, lacks its role; the others are valid as fetched.    *)
(***************************************************************************)
IsMismatch(a) ==
    /\ Len(a.status_history) > 0
    /\ a.status # LatestStatus(a.status_history)

FixFailedFor(a) ==
    \E n \in 1..Len(autoFixes) :
        /\ autoFixes[n].id = a.id
        /\ autoFixes[n].state = "failed"

FailedFixScenario(mismatch, norole) ==
    /\ lastOp.op = "loaded"
    /\ lastOp.reset
    /\ lastResponse.shape = "envelope"
    /\ Len(lastOp.page) = pageSize
    /\ mismatch # norole
    /\ IsMismatch(lastOp.page[mismatch])
    /\ IsValidRecord(Healed(lastOp.page[mismatch]))
    /\ FixFailedFor(lastOp.page[mismatch])
    /\ ~NonBlank(lastOp.page[norole].role)
    /\ \A k \in 1..pageSize :
           k \notin {mismatch, norole} => IsValidRecord(lastOp.page[k])

(***************************************************************************)
(* C11 as stated.  In the scenario the mismatched record whose PUT failed  *)
(* is in the invalid list and not among the valid records: the store holds *)
(* pageSize - 2 valid records, the invalid list has length 2, the offset   *)
(* is pageSize - 2 and hasMoreData is the has_more flag of the response.   *)
(***************************************************************************)
C11_FailedFixIsInvalid ==
    \A mismatch, norole \in 1..Len(lastOp.page) :
        FailedFixScenario(mismatch, norole) =>
            /\ Len(allApplications) = pageSize - 2
            /\ Len(invalidApplications) = 2
            /\ \E n \in 1..Len(invalidApplications) :
                   invalidApplications[n].id = lastOp.page[mismatch].id
            /\ \A n \in 1..Len(allApplications) :
                   allApplications[n].id # lastOp.page[mismatch].id
            /\ currentOffset = pageSize - 2
            /\ hasMoreData = lastResponse.has_more

(***************************************************************************)
(* C11, amended.  In the scenario the mismatched record is held among the  *)
(* valid records with the status of its latest history entry, whatever     *)
(* became of its PUT; only the record without role is in the invalid       *)
(* list: the store holds pageSize - 1 valid records, the invalid list has  *)
(* length 1, the offset is pageSize - 1 and hasMoreData is the has_more    *)
(* flag of the response.                                                   *)
(***************************************************************************)
C11_FailedFixIsHealed ==
    \A mismatch, norole \in 1..Len(lastOp.page) :
        FailedFixScenario(mismatch, norole) =>
            /\ Len(allApplications) = pageSize - 1
            /\ invalidApplications = <<lastOp.page[norole]>>
            /\ \E n \in 1..Len(allApplications) :
                   allApplications[n] = Healed(lastOp.page[mismatch])
            /\ currentOffset = pageSize - 1
            /\ hasMoreData = lastResponse.has_more

\* The scenario has happened, with a further page on the backend.
C11_Witness ==
    /\ \E mismatch, norole \in 1..Len(lastOp.page) :
           FailedFixScenario(mismatch, norole)
    /\ lastResponse.has_more

(***************************************************************************)
(* C19.  No record is in the invalid list on account of a status/history   *)
(* mismatch: every record of the invalid list fails a required-field, the  *)
(* date-format or the status-enum check, and none of them has a status     *)
(* that disagrees with its latest history entry.                           *)
(***************************************************************************)
FailsFieldCheck(a) ==
    \/ ~NonBlank(a.company)
    \/ ~NonBlank(a.role)
    \/ ~NonBlank(a.status)
    \/ ~NonBlank(a.platform)
    \/ ~IsIsoDate(a.applied_date)
    \/ a.status \notin StatusEnum

C19_NoMismatchInInvalid ==
    \A n \in 1..Len(invalidApplications) :
        /\ FailsFieldCheck(invalidApplications[n])
        /\ ~IsMismatch(invalidApplications[n])

\* A record that reconciliation changed is in the invalid list, next to a
\* mismatched record that became valid.
C19_Witness ==
    /\ lastOp.op = "loaded"
    /\ \E n \in 1..Len(invalidApplications), i \in 1..Len(lastOp.page) :
           /\ IsMismatch(lastOp.page[i])
           /\ invalidApplications[n] = Healed(lastOp.page[i])
    /\ \E n \in 1..Len(allApplications), i \in 1..Len(lastOp.page) :
           /\ IsMismatch(lastOp.page[i])
           /\ allApplications[n] = Healed(lastOp.page[i])

(***************************************************************************)
(* C17.  A load whose fetch fails, by a network error or a body that does  *)
(* not decode, reports the failure to its caller: the call is rejected,    *)
(* and loadMoreApplications, when it was the caller, shows its error       *)
(* message.                                                                *)
(***************************************************************************)
C17_FailureReported ==
    lastOp.op = "failed" =>
        /\ lastOp.settled = "rejected"
        /\ ~lastOp.reset => lastOp.toast # <<>>

(***************************************************************************)
(* C18.  Onboarding completion persists.  After skip(), complete() or      *)
(* dismiss() the item jobpulse_onboarding_completed is 'true'; while it is *)
(* 'true' the overlay is not shown, so a show(), on the same guide or on   *)
(* one made after a reload, displays nothing; only resetOnboarding()       *)
(* removes the item; and a show() that finds the item removed displays the *)
(* guide at step 0.                                                        *)
(***************************************************************************)
C18_CompletionPersists ==
    /\ (onbOp.op \in {"skip", "complete"} => localStorage = "true")
    /\ (onbOp.op = "dismiss" /\ onboardingGuide.made => localStorage = "true")
    /\ (localStorage = "true" => ~overlay.active)
    /\ (onbOp.op = "show" /\ onbOp.flag = "true" =>
            ~overlay.active /\ localStorage = "true")
    /\ (onbOp.flag = "true" /\ localStorage # "true" => onbOp.op = "reset")
    /\ (onbOp.op = "show" /\ onbOp.flag # "true" =>
            /\ overlay.active
            /\ overlay.step = 0
            /\ onboardingGuide.currentStep = 0)

\* The guide was completed, reset, and is shown again from step 0.
C18_Witness ==
    /\ onbOp.op = "show"
    /\ onbOp.everReset
    /\ overlay.active
    /\ overlay.step = 0

(***************************************************************************)
(* C12.  The 'new' and the 'updated' highlight sets are disjoint in every  *)
(* reachable state, whatever list a scan result passes to mark.            *)
(***************************************************************************)
C12_HighlightsDisjoint ==
    recentlyUpdatedIds \cap recentlyImportedIds = {}

(***************************************************************************)
(* C13.  After every mark, by the poller or by the manual scan, a clearing *)
(* timer fires: both highlight sets are emptied and the render that        *)
(* follows reads them empty, so that isNew and isUpdated are false for     *)
(* every id.                                                               *)
(***************************************************************************)
C13_MarksExpire ==
    (scanLog.op \in {"pollMarked", "manualMarked"}) ~>
        (/\ scanLog.op = "expired"
         /\ recentlyUpdatedIds = {}
         /\ recentlyImportedIds = {}
         /\ rendered = NoHighlights)

\* A timer has emptied sets that the poller's mark had filled.
C13_Witness ==
    /\ scanLog.op = "expired"
    /\ scanLog.cleared
    /\ scanLog.by = "poll"
    /\ recentlyUpdatedIds = {}
    /\ recentlyImportedIds = {}
    /\ rendered = NoHighlights

(***************************************************************************)
(* C14.  A run of the poller ends: it issues at most maxAttempts (60)      *)
(* status requests, and when the backend has answered 'scanning'           *)
(* maxAttempts times the run has stopped, no timer set, no request out,    *)
(* no notice shown.                                                        *)
(***************************************************************************)
C14_PollerStopsAtCap ==
    /\ poller.requests <= maxAttempts
    /\ poller.attempts <= poller.requests
    /\ poller.attempts = maxAttempts =>
           /\ poller.state = "stopped"
           /\ poller.notices = 0

\* The backend has answered 'scanning' to the 60th request.
C14_Witness ==
    /\ poller.attempts = maxAttempts
    /\ poller.requests = maxAttempts
    /\ poller.last = "scanning"
    /\ poller.state = "stopped"

(***************************************************************************)
(* C15.  A status poll that fails, by a network error or a body that does  *)
(* not decode, does not end the polling: below the cap a further poll is   *)
(* scheduled after it.                                                     *)
(***************************************************************************)
C15_FailureKeepsPolling ==
    (poller.last = "failure" /\ poller.attempts < maxAttempts) =>
        poller.state \in {"timer", "request"}

(***************************************************************************)
(* C16.  A run of the poller shows at most one notice, and none when it    *)
(* ends on 'error', 'idle' or the cap; from the first status other than    *)
(* 'scanning' on it issues no status request and sets no poll timer; a     *)
(* poll is scheduled again after 'scanning' only.                          *)
(***************************************************************************)
C16_TerminalOnce ==
    /\ poller.notices <= 1
    /\ poller.last \in {"error", "idle"} => poller.notices = 0
    /\ poller.attempts = maxAttempts => poller.notices = 0
    /\ poller.terminalAt >= 0 =>
           /\ poller.requests = poller.terminalAt
           /\ poller.state \notin {"timer", "request"}
    /\ (poller.state = "timer" /\ poller.requests > 0) =>
           poller.last = "scanning"

\* 'done' was observed after 'scanning', its notice shown, and the reload
\* it started has returned.
C16_Witness ==
    /\ poller.last = "done"
    /\ poller.attempts > 0
    /\ poller.notices = 1
    /\ poller.state = "stopped"
    /\ clearTimers.poll > 0

(***************************************************************************)
(* C20.  When a poll observes 'done' with imported or updated records: the *)
(* highlight sets are filled and the reload (refreshData with reset) is    *)
(* started in the same step; the poller's clearing timer is set only when  *)
(* that reload has returned; and when the reload renders, with no mark in  *)
(* between, the render reads the highlight sets as the poller's mark left  *)
(* them.                                                                   *)
(***************************************************************************)
C20_MarkReloadThenTimer ==
    /\ scanLog.op = "pollMarked" =>
           /\ lastOp.op = "refresh"
           /\ lastOp.reset
           /\ poller.awaiting = calls
    /\ poller.state = "refreshing" =>
           /\ clearTimers.poll = 0
           /\ \E req \in inflight : req.rid = poller.awaiting
    /\ (scanLog.op = "reloaded" /\ scanLog.by = "poll") =>
           /\ clearTimers.poll > 0
           /\ rendered = scanLog.marked

(***************************************************************************)
(* C21.  A poll that observes 'error', 'idle' or 'done' with nothing       *)
(* imported and nothing updated leaves the store (valid and invalid        *)
(* records, offset, hasMore, total, the loading flag) and both highlight   *)
(* sets as they were and starts no page fetch; it shows a notice exactly   *)
(* when the status is 'done' and found > 0.                                *)
(***************************************************************************)
C21_QuietPollFrame ==
    [][(/\ poller.state = "request"
        /\ poller'.state = "stopped"
        /\ poller'.last \in {"done", "error", "idle"}) =>
           /\ UNCHANGED <<allApplications, invalidApplications, currentOffset,
                          hasMoreData, totalApplications, isLoadingMore>>
           /\ UNCHANGED <<recentlyUpdatedIds, recentlyImportedIds>>
           /\ UNCHANGED <<inflight, calls>>
           /\ poller'.notices # poller.notices =>
                  /\ poller'.last = "done"
                  /\ scanLog'.op = "pollUpToDate"
           /\ scanLog'.op = "pollUpToDate" =>
                  poller'.notices = poller.notices + 1]_vars

\* The poller has observed 'done' with found > 0 and nothing imported, and
\* shown its notice, while records were held and highlights of a manual
\* scan were set.
C21_Witness ==
    /\ scanLog.op = "pollUpToDate"
    /\ poller.notices = 1
    /\ allApplications # <<>>
    /\ recentlyUpdatedIds # {}
    /\ recentlyImportedIds # {}

(***************************************************************************)
(* The first page the backend returns for a platform filter, and the       *)
(* records of a page that are valid once healed, in page order.            *)
(***************************************************************************)
FirstPageFor(platform) ==
    LET m == IF platform = Empty THEN serverApps
             ELSE SelectSeq(serverApps, LAMBDA a : a.platform = platform)
    IN  SubSeq(m, 1, IF Len(m) < pageSize THEN Len(m) ELSE pageSize)

ValidOfPage(page) ==
    SelectSeq([i \in 1..Len(page) |-> Healed(page[i])],
              LAMBDA a : IsValidRecord(a))

\* The response that arrived last belongs to a reset issued before another
\* reset whose response had arrived already.
StaleResetArrived ==
    LET n == Len(arrivals)
    IN  /\ lastOp.op = "loaded"
        /\ n >= 2
        /\ arrivals[n].reset
        /\ \E k \in 1..(n - 1) :
               /\ arrivals[k].reset
               /\ arrivals[k].rid > arrivals[n].rid

(***************************************************************************)
(* C22.  Nothing orders overlapping resets: when the response of a reset   *)
(* arrives after the response of a reset issued later, the store holds the *)
(* records of the earlier request, those of its platform filter from       *)
(* offset 0, and the offset is their number.                               *)
(***************************************************************************)
C22_StaleResetWins ==
    StaleResetArrived =>
        /\ allApplications =
               ValidOfPage(FirstPageFor(arrivals[Len(arrivals)].platform))
        /\ currentOffset = Len(allApplications)

\* Both responses have arrived, the earlier request's last; the store holds
\* its records, which are not those of the filter now selected.
C22_Witness ==
    /\ StaleResetArrived
    /\ inflight = {}
    /\ arrivals[Len(arrivals)].platform # filterPlatform
    /\ \E k \in 1..(Len(arrivals) - 1) :
           /\ arrivals[k].rid = calls
           /\ arrivals[k].platform = filterPlatform
    /\ allApplications # ValidOfPage(FirstPageFor(filterPlatform))

(***************************************************************************)
(* C23.  A clearing timer empties highlight sets only when it is the timer *)
(* of the mark that filled them: the timer of an earlier mark, still       *)
(* pending when a later mark fills the sets, does not empty them.          *)
(***************************************************************************)
C23_OnlyLatestTimerClears ==
    (scanLog.op = "expired" /\ scanLog.cleared) =>
        scanLog.timer = scanLog.by

(***************************************************************************)
(* C24.  The valid store changes by whole pages only.  A completed load    *)
(* leaves in it, behind the records held before (none after a reset),      *)
(* every record of the fetched page that is valid once reconciled, in page *)
(* order; the start of a reset load empties it; no other step changes it.  *)
(* So no state, and no render callback running in one, shows the store     *)
(* with part of a page merged, or a record validated before it was         *)
(* reconciled.                                                             *)
(***************************************************************************)
C24_WholePageMerged ==
    /\ lastOp.op = "loaded" =>
           allApplications =
               (IF lastOp.reset THEN <<>> ELSE lastOp.pre.all)
                   \o ValidOfPage(lastOp.page)
    /\ lastOp.op = "refresh" => allApplications = <<>>
    /\ lastOp.op \in {"loadMore", "failed", "unauthorized", "malformed"} =>
           allApplications = lastOp.pre.all

\* An append has merged a page of several records, one of them healed by
\* reconciliation, behind records held before.
C24_Witness ==
    /\ lastOp.op = "loaded"
    /\ ~lastOp.reset
    /\ lastOp.pre.all # <<>>
    /\ Len(lastOp.page) >= 2
    /\ \E i \in 1..Len(lastOp.page) : IsMismatch(lastOp.page[i])
    /\ Len(allApplications) = Len(lastOp.pre.all) + Len(lastOp.page)

(***************************************************************************)
(* C25.  A load accepts the envelope and the bare list.  The records are   *)
(* those of the response; hasMoreData is the has_more of the response, and *)
(* false when the response has none (a bare list, or an envelope without   *)
(* it); totalApplications is the total of the response, and the number of  *)
(* records returned when the response has none.                            *)
(***************************************************************************)
HasMoreGiven ==
    lastResponse.shape \in {"envelope", "envelopeNoTotal"}

TotalGiven ==
    lastResponse.shape \in {"envelope", "envelopeNoHasMore"}

C25_BothShapesAccepted ==
    lastOp.op = "loaded" =>
        /\ hasMoreData = IF HasMoreGiven THEN lastResponse.has_more ELSE FALSE
        /\ totalApplications =
               IF TotalGiven THEN lastResponse.total ELSE Len(lastOp.page)
        /\ allApplications =
               (IF lastOp.reset THEN <<>> ELSE lastOp.pre.all)
                   \o ValidOfPage(lastOp.page)

\* A bare list has been loaded while the backend held more records than it
\* returned: hasMoreData is false and the total is the length of the list.
C25_Witness ==
    /\ lastOp.op = "loaded"
    /\ lastResponse.shape = "legacy"
    /\ lastResponse.has_more
    /\ ~hasMoreData
    /\ lastOp.page # <<>>
    /\ totalApplications = Len(lastOp.page)
    /\ totalApplications < lastResponse.total

(***************************************************************************)
(* C26.  Against a backend whose collection has unique ids and does not    *)
(* change, no id occurs twice among the valid records held, and none twice *)
(* in the invalid list, after any sequence of reset and append loads.      *)
(***************************************************************************)
UniqueIds(apps) ==
    \A i, j \in 1..Len(apps) : apps[i].id = apps[j].id => i = j

C26_NoDuplicateIds ==
    /\ UniqueIds(serverApps)
    /\ UniqueIds(allApplications)
    /\ UniqueIds(invalidApplications)

(***************************************************************************)
(* C27.  At most one append fetch started by loadMoreApplications is in    *)
(* flight at any time, and isLoadingMore is true for as long as one is,    *)
(* also when a reset load completes in between.                            *)
(***************************************************************************)
AppendsInFlight ==
    {req \in inflight : ~req.resetPagination}

C27_OneAppendInFlight ==
    /\ Cardinality(AppendsInFlight) <= 1
    /\ AppendsInFlight # {} => isLoadingMore

(***************************************************************************)
(* C28.  Every update request that reconciliation dispatches carries one   *)
(* of the 14 status names, and a record that passes the required-field,    *)
(* date and status-enum checks as fetched is valid when reconciled,        *)
(* whatever its history holds.                                             *)
(***************************************************************************)
C28_AutoFixIsSafe ==
    probe.phase = "reconciled" =>
        /\ \A n \in 1..Len(probe.puts) : probe.puts[n].status \in StatusEnum
        /\ ~FailsFieldCheck(probe.before) => IsValidRecord(probe.app)

(***************************************************************************)
(* C29.  Once no load is in flight, the valid store holds records of the   *)
(* filter requested last only, in the backend's order from offset 0: the   *)
(* valid ones among the first n records matching that filter, for some n.  *)
(* In particular the page of an append issued before a reset is not        *)
(* behind the records of that reset.                                       *)
(***************************************************************************)
MatchingNow ==
    IF filterPlatform = Empty THEN serverApps
    ELSE SelectSeq(serverApps, LAMBDA a : a.platform = filterPlatform)

C29_StoreFollowsLatestFilter ==
    (inflight = {} /\ calls > 0) =>
        \E n \in 0..Len(MatchingNow) :
            allApplications = ValidOfPage(SubSeq(MatchingNow, 1, n))

(***************************************************************************)
(* C30.  A reset load replaces the store atomically: while its response is *)
(* awaited, a render run by the highlight-clearing timer reads the records *)
(* held before the call.  Stated for a call that no other call overlaps.   *)
(***************************************************************************)
C30_RenderSeesOldRecords ==
    scanLog.op = "expired" =>
        \A req \in inflight :
            (req.resetPagination /\ ~req.overlapped) =>
                allApplications = req.pre.all

====
